---- MODULE Spec2Model ----
(***************************************************************************)
(* Model of streamlit_app.py: the restaurant dashboard's pipeline          *)
(*   fetch -> load (memoized) -> normalize types -> filter -> render.      *)
(*                                                                         *)
(* Conventions.  A missing value (pandas NaN) is Null == <<>> and a        *)
(* present value v is Some(v) == <<v>>.  Ratings and coordinates are kept  *)
(* in tenths (4.2 is 42).  A CSV text is a sequence of lines, the first    *)
(* the header, each line the sequence of its comma-separated fields.  A    *)
(* table (DataFrame) is a sequence of rows, each row a record of its       *)
(* columns plus the row label "index".                                     *)
(***************************************************************************)
EXTENDS Naturals, Integers, Sequences, FiniteSets, TLC

VARIABLES
    pc,            \* position of the script run (main)
    cycle,         \* number of script runs started in this session
    response,      \* result of requests.get in this run: [status_code, text]
    cache,         \* st.cache_data store of load_data_from_csv: text -> table
    parses,        \* call count of pd.read_csv per text (instrumentation)
    loads,         \* call count of load_data_from_csv per text (instrumentation)
    ran,           \* routines executed so far in this run
    df,            \* main's df
    rating_range,  \* value of the slider
    selected_type, \* value of the selectbox
    filtered_df,   \* main's filtered_df
    ui,            \* elements rendered on the page in this run
    df2            \* a normalized table normalized a second time

vars == <<pc, cycle, response, cache, parses, loads, ran, df, rating_range,
          selected_type, filtered_df, ui, df2>>

----------------------------------------------------------------------------
(* Bounds *)

\* script runs per session
MaxCycles == 3
\* data rows of a table handed to filter_restaurants
MaxRows == 2
\* data rows of a table handed to clean_restaurant_types
MaxTypeRows == 1

----------------------------------------------------------------------------
(* Values *)

Null == <<>>
Some(v) == <<v>>

Range(s) == {s[i] : i \in 1..Len(s)}

\* pandas comparison of two possibly missing numbers: False when either is NaN
Ge(a, b) == a # Null /\ b # Null /\ a[1] >= b[1]
Le(a, b) == a # Null /\ b # Null /\ a[1] <= b[1]
\* pandas == of a possibly missing cell with a Python string
EqStr(a, s) == a # Null /\ a[1] = s

----------------------------------------------------------------------------
(* 2. Data cleaning *)

\* the dict type_mapping, entry for entry (keys as the source file spells them)
type_mapping ==
       "Restaurang" :> "Restaurant"
    @@ "Lunchrestaurang" :> "Restaurant"
    @@ "Exklusiv restaurang" :> "Restaurant"
    @@ "Vietnamesisk restaurang" :> "Vietnamese"
    @@ "Indisk restaurang" :> "Indian"
    @@ "Modern indisk restaurang" :> "Indian"
    @@ "Kinesisk restaurang" :> "Chinese"
    @@ "Japansk restaurang" :> "Japanese"
    @@ "Koreansk restaurang" :> "Korean"
    @@ "ThailÃ¤ndsk restaurang" :> "Thai"
    @@ "Asiatisk restaurang" :> "Asian"
    @@ "Asiatisk fusionrestaurang" :> "Asian Fusion"
    @@ "Ramen-restaurang" :> "Japanese"
    @@ "Palestinsk restaurang" :> "Palestinian"
    @@ "Persisk restaurang" :> "Persian"
    @@ "Turkisk restaurang" :> "Turkish"
    @@ "Grekisk restaurang" :> "Greek"
    @@ "Medelhavsrestaurang" :> "Mediterranean"
    @@ "Etiopisk restaurang" :> "Ethiopian"
    @@ "Argentinsk restaurang" :> "Argentinian"
    @@ "Sydamerikansk restaurang" :> "South American"
    @@ "Baskisk restaurang" :> "Basque"
    @@ "Amerikansk restaurang" :> "American"
    @@ "Svensk restaurang" :> "Swedish"
    @@ "Fransk restaurang" :> "French"
    @@ "Italiensk restaurang" :> "Italian"
    @@ "Skandinavisk restaurang" :> "Scandinavian"
    @@ "Europeisk restaurang" :> "European"
    @@ "Modern europeisk restaurang" :> "Modern European"
    @@ "Polsk restaurang" :> "Polish"
    @@ "Tjeckisk restaurang" :> "Czech"
    @@ "Nepalesisk restaurang" :> "Nepalese"
    @@ "Bulgarisk restaurang" :> "Bulgarian"
    @@ "Sushirestaurang" :> "Sushi"
    @@ "Fiskrestaurang" :> "Seafood"
    @@ "Fisk- och skaldjursrestaurang" :> "Seafood"
    @@ "Kycklingrestaurang" :> "Chicken"
    @@ "KÃ¶ttrÃ¤tter, restaurang" :> "Steakhouse"
    @@ "Pizzeria" :> "Pizza"
    @@ "Tacorestaurang" :> "Tacos"
    @@ "Tapasrestaurang" :> "Tapas"
    @@ "Tapasbar" :> "Tapas"
    @@ "Hamburgerrestaurang" :> "Burgers"
    @@ "Grillrestaurang" :> "Grill"
    @@ "Brasserie" :> "Brasserie"
    @@ "Bistro" :> "Bistro"
    @@ "Gastropub" :> "Gastropub"
    @@ "Vinbar" :> "Wine Bar"
    @@ "Bar och grill" :> "Bar & Grill"
    @@ "Bryggeripub" :> "Brewery Pub"
    @@ "Fusion, restaurang" :> "Fusion"

\* (mutant) the dict with one more entry, merging the canonical "Sushi" into
\* "Japanese": a value of the table becomes a key that maps elsewhere
MapTypeSushiMerged(t) ==
    LET merged == ("Sushi" :> "Japanese") @@ type_mapping
    IN  IF t # Null /\ t[1] \in DOMAIN merged THEN Some(merged[t[1]]) ELSE Null

\* Series.map(type_mapping): the dict's value for a key, NaN for anything else
MapType(t) ==
    IF t # Null /\ t[1] \in DOMAIN type_mapping THEN Some(type_mapping[t[1]])
    ELSE Null

\* (mutant) fillna("Other"): a missing cell takes a fixed label
FillNaOther(cell, other) == IF cell = Null THEN Some("Other") ELSE cell

\* Series.fillna(other): a missing cell takes the cell of other in the same row
FillNa(cell, other) == IF cell = Null THEN other ELSE cell

\* (mutant) the fillna step left out: an unmapped type gives a missing cell
CleanedTypeNoFill(t) == MapType(t)

\* the cleaned_type cell of one row: map(type_mapping).fillna(type)
CleanedType(t) == FillNa(MapType(t), t)

\* df["cleaned_type"] = ...; return df  (sets or overwrites the column)
clean_restaurant_types(t) ==
    [i \in 1..Len(t) |->
        [c \in (DOMAIN t[i]) \cup {"cleaned_type"} |->
            IF c = "cleaned_type" THEN CleanedType(t[i].type) ELSE t[i][c]]]

----------------------------------------------------------------------------
(* 1. Data fetching and loading *)

\* the header line of the remote CSV
Header == <<"title", "rating", "reviews", "type", "latitude", "longitude">>

\* columns read_csv infers as numeric; the others hold strings
NumericColumns == {"rating", "reviews", "latitude", "longitude"}

\* the decimal literals that occur in the modelled CSV texts, in tenths
\* (reviews, an integer count, in units)
NumberLiterals ==
       "3.0" :> 30 @@ "4.0" :> 40 @@ "4.1" :> 41 @@ "4.2" :> 42 @@ "4.5" :> 45
    @@ "57.7" :> 577 @@ "11.9" :> 119 @@ "120" :> 120 @@ "7" :> 7

\* read_csv's conversion of one field: an empty field is NaN, a numeric column's
\* field its number, any other field the string itself
ParseField(column, field) ==
    IF field = "" THEN Null
    ELSE IF column \in NumericColumns THEN Some(NumberLiterals[field])
    ELSE Some(field)

\* pd.read_csv(csv_text): the first line names the columns, every further line
\* is one row, in the order of the text
read_csv(text) ==
    [i \in 1..(Len(text) - 1) |->
        [c \in Range(text[1]) |->
            LET j == CHOOSE k \in 1..Len(text[1]) : text[1][k] = c
            IN  ParseField(c, text[i + 1][j])]]

\* df.reset_index(drop=True): row labels 0, 1, 2, ... in row order
reset_index(t) ==
    [i \in 1..Len(t) |->
        [c \in (DOMAIN t[i]) \cup {"index"} |->
            IF c = "index" THEN i - 1 ELSE t[i][c]]]

\* the body of load_data_from_csv, run on a cache miss
ParseCsv(text) == reset_index(read_csv(text))

\* (mutant) the argument hashed by object identity: every run builds a new
\* StringIO, so no call ever hits
CacheHitByIdentity(c, text) == FALSE

\* st.cache_data looks the call up by the hash of the argument; a StringIO is
\* hashed by its content, so equal texts hit the same entry
CacheHit(c, text) == text \in DOMAIN c

\* (mutant) the cache hands out the stored object itself (st.cache_resource):
\* a change the caller makes in place is a change of the entry
CacheSharesObject(c, text, mutated) == (text :> mutated) @@ c

\* st.cache_data stores a serialized copy of the result and hands out a fresh
\* copy on every hit: the entry is unaffected when the caller changes, in
\* place, the table it was given (key: the text it was loaded from)
CacheAfterCallerMutation(c, text, mutated) == c

\* the value load_data_from_csv returns for text under cache c
load_data_from_csv(c, text) ==
    IF CacheHit(c, text) THEN c[text] ELSE ParseCsv(text)

\* (mutant) every status below 400 taken as success
StatusOkBelow400(status_code) == status_code < 400

\* fetch_data_from_dropbox: the status that counts as success
StatusOk(status_code) == status_code = 200

----------------------------------------------------------------------------
(* 3. Filters and visualization helpers *)

\* (mutant) the upper bound exclusive
InRatingRangeExclusive(row, range) ==
    /\ Ge(row.rating, range[1])
    /\ Le(row.rating, range[2])
    /\ row.rating # range[2]

\* (mutant) the range written as an exclusion, ~((rating < min) | (rating > max)):
\* a comparison with NaN is False, so a row without a rating is kept
InRatingRangeByExclusion(row, range) ==
    /\ ~(row.rating # Null /\ range[1] # Null /\ row.rating[1] < range[1][1])
    /\ ~(row.rating # Null /\ range[2] # Null /\ row.rating[1] > range[2][1])

\* df[(df["rating"] >= min_rating) & (df["rating"] <= max_rating)]
InRatingRange(row, range) == Ge(row.rating, range[1]) /\ Le(row.rating, range[2])

\* (mutant) the bounds put in order before filtering
filter_restaurants_swapping(t, range, sel) ==
    LET ordered == IF range[1] # Null /\ range[2] # Null /\ range[1][1] > range[2][1]
                   THEN <<range[2], range[1]>> ELSE range
        InRange(row) == InRatingRange(row, ordered)
        filtered == SelectSeq(t, InRange)
        OfType(row) == EqStr(row.cleaned_type, sel)
    IN  IF sel # "All" THEN SelectSeq(filtered, OfType) ELSE filtered

\* filter_restaurants(df, rating_range, selected_type)
filter_restaurants(t, range, sel) ==
    LET InRange(row) == InRatingRange(row, range)
        filtered == SelectSeq(t, InRange)
        OfType(row) == EqStr(row.cleaned_type, sel)
    IN  IF sel # "All" THEN SelectSeq(filtered, OfType) ELSE filtered

\* display_map: rows with both coordinates, as a deck, or the text shown instead
display_map(t) ==
    LET HasCoordinates(row) == row.latitude # Null /\ row.longitude # Null
        map_df == SelectSeq(t, HasCoordinates)
    IN  IF map_df = <<>>
        THEN [kind |-> "text", body |-> "No valid coordinates to display on the map."]
        ELSE [kind |-> "deck", data |-> map_df]

\* display_histogram: the chart over the ratings of the rows it is given
display_histogram(t) ==
    [kind |-> "chart", data |-> [i \in 1..Len(t) |-> t[i].rating]]

RECURSIVE SumRatings(_)
\* sum of the present ratings of a table, in tenths (Series.mean skips NaN)
SumRatings(t) ==
    IF t = <<>> THEN 0
    ELSE (IF Head(t).rating = Null THEN 0 ELSE Head(t).rating[1]) + SumRatings(Tail(t))

\* number of rows with a present rating
CountRatings(t) == Cardinality({i \in 1..Len(t) : t[i].rating # Null})

\* (mutant) the emptiness test left out: the box is drawn for any table
display_average_rating_unguarded(t) ==
    [kind |-> "box",
     mean |-> IF CountRatings(t) = 0 THEN Null
              ELSE Some((20 * SumRatings(t) + CountRatings(t))
                        \div (2 * CountRatings(t)))]

\* display_average_rating: the mean in a box, in hundredths ({avg_rating:.2f}),
\* or the placeholder text for an empty table
display_average_rating(t) ==
    IF Len(t) > 0
    THEN [kind |-> "box",
          mean |-> IF CountRatings(t) = 0 THEN Null
                   ELSE Some((20 * SumRatings(t) + CountRatings(t))
                             \div (2 * CountRatings(t)))]
    ELSE [kind |-> "text", body |-> "No restaurants found."]

\* the dataframe element: the four displayed columns of the filtered rows
ShownColumns(t) ==
    [i \in 1..Len(t) |->
        [c \in {"title", "rating", "reviews", "cleaned_type"} |-> t[i][c]]]

\* float(df["rating"].min()) and .max(): NaN when no rating is present
MinRating(t) ==
    LET present == {t[i].rating[1] : i \in {k \in 1..Len(t) : t[k].rating # Null}}
    IN  IF present = {} THEN Null
        ELSE Some(CHOOSE m \in present : \A x \in present : m <= x)
MaxRating(t) ==
    LET present == {t[i].rating[1] : i \in {k \in 1..Len(t) : t[k].rating # Null}}
    IN  IF present = {} THEN Null
        ELSE Some(CHOOSE m \in present : \A x \in present : m >= x)

\* the values the range slider can hold: low <= high between the two ends,
\* in steps of 0.1; (NaN, NaN) when the ends are NaN
SliderValues(t) ==
    IF MinRating(t) = Null THEN {<<Null, Null>>}
    ELSE UNION {{<<Some(lo), Some(hi)>> : hi \in lo..MaxRating(t)[1]} :
                    lo \in MinRating(t)[1]..MaxRating(t)[1]}

\* the options of the selectbox: "All", then the distinct present cleaned types
type_options(t) ==
    {"All"} \cup {t[i].cleaned_type[1] :
                    i \in {k \in 1..Len(t) : t[k].cleaned_type # Null}}

----------------------------------------------------------------------------
(* The remote file and the HTTP exchange *)

\* contents the remote CSV file takes over a session
DataEmpty == <<Header>>
DataA ==
    <<Header,
      <<"Sushi Place", "4.2", "120", "Sushirestaurang", "57.7", "11.9">>,
      <<"Mystery", "4.0", "7", "Unknown Category", "", "">> >>
DataB ==
    <<Header,
      <<"Sushi Place", "4.2", "120", "Sushirestaurang", "57.7", "11.9">>,
      <<"Mystery", "4.0", "7", "Unknown Category", "", "">>,
      <<"Unrated", "", "", "Bistro", "57.7", "11.9">> >>
DataUnrated == <<Header, <<"Unrated", "", "", "Bistro", "", "">> >>
Datasets == {DataEmpty, DataA, DataB, DataUnrated}

\* the body of a response that is not the file (an error or redirect page)
ErrorBody == << <<"<html>error</html>">> >>

\* status codes the host answers with
StatusCodes == {200, 301, 404}

Bodies(status_code) == IF status_code = 200 THEN Datasets ELSE {ErrorBody}

\* the page before anything is rendered
NoUi == [error |-> Null, table |-> Null, map |-> Null, hist |-> Null, avg |-> Null]

NoCalls == [x \in Datasets \cup {ErrorBody} |-> 0]

----------------------------------------------------------------------------
(* The script run: main, re-executed on every interaction *)

Init ==
    /\ pc = "start"
    /\ cycle = 1
    /\ response = Null
    /\ cache = <<>>
    /\ parses = NoCalls
    /\ loads = NoCalls
    /\ ran = {}
    /\ df = <<>>
    /\ rating_range = Null
    /\ selected_type = ""
    /\ filtered_df = <<>>
    /\ ui = NoUi
    /\ df2 = <<>>

\* response = requests.get(dropbox_url)
Fetch ==
    /\ pc = "start"
    /\ \E status_code \in StatusCodes : \E text \in Bodies(status_code) :
          response' = [status_code |-> status_code, text |-> text]
    /\ pc' = "fetched"
    /\ UNCHANGED <<cycle, cache, parses, loads, ran, df, rating_range,
                   selected_type, filtered_df, ui, df2>>

\* status 200: return load_data_from_csv(StringIO(response.text))
Load ==
    /\ pc = "fetched"
    /\ StatusOk(response.status_code)
    /\ LET text == response.text
           hit == CacheHit(cache, text)
       IN  /\ df' = load_data_from_csv(cache, text)
           /\ cache' = IF hit THEN cache ELSE (text :> ParseCsv(text)) @@ cache
           /\ parses' = IF hit THEN parses ELSE [parses EXCEPT ![text] = @ + 1]
           /\ loads' = [loads EXCEPT ![text] = @ + 1]
           /\ ran' = ran \cup {"load_data_from_csv"}
                         \cup (IF hit THEN {} ELSE {"read_csv"})
    /\ pc' = "loaded"
    /\ UNCHANGED <<cycle, response, rating_range, selected_type, filtered_df,
                   ui, df2>>

\* any other status: st.error(...status code...); st.stop()
Halt ==
    /\ pc = "fetched"
    /\ ~StatusOk(response.status_code)
    /\ ui' = [ui EXCEPT !.error = Some(response.status_code)]
    /\ pc' = "stopped"
    /\ UNCHANGED <<cycle, response, cache, parses, loads, ran, df, rating_range,
                   selected_type, filtered_df, df2>>

\* df = clean_restaurant_types(df): the loaded table is changed in place
Clean ==
    /\ pc = "loaded"
    /\ df' = clean_restaurant_types(df)
    /\ cache' = CacheAfterCallerMutation(cache, response.text, df')
    /\ ran' = ran \cup {"clean_restaurant_types"}
    /\ pc' = "cleaned"
    /\ UNCHANGED <<cycle, response, parses, loads, rating_range, selected_type,
                   filtered_df, ui, df2>>

\* the slider and the selectbox hand back what the user has set
Widgets ==
    /\ pc = "cleaned"
    /\ \E range \in SliderValues(df) : \E sel \in type_options(df) :
          /\ rating_range' = range
          /\ selected_type' = sel
    /\ pc' = "widgets"
    /\ UNCHANGED <<cycle, response, cache, parses, loads, ran, df, filtered_df,
                   ui, df2>>

\* filtered_df = filter_restaurants(df, rating_range, selected_type)
Filter ==
    /\ pc = "widgets"
    /\ filtered_df' = filter_restaurants(df, rating_range, selected_type)
    /\ ran' = ran \cup {"filter_restaurants"}
    /\ pc' = "filtered"
    /\ UNCHANGED <<cycle, response, cache, parses, loads, df, rating_range,
                   selected_type, ui, df2>>

\* st.dataframe(filtered_df[[...]])
ShowTable ==
    /\ pc = "filtered"
    /\ ui' = [ui EXCEPT !.table = Some(ShownColumns(filtered_df))]
    /\ pc' = "tabled"
    /\ UNCHANGED <<cycle, response, cache, parses, loads, ran, df, rating_range,
                   selected_type, filtered_df, df2>>

\* display_map(filtered_df)
ShowMap ==
    /\ pc = "tabled"
    /\ ui' = [ui EXCEPT !.map = Some(display_map(filtered_df))]
    /\ pc' = "mapped"
    /\ UNCHANGED <<cycle, response, cache, parses, loads, ran, df, rating_range,
                   selected_type, filtered_df, df2>>

\* main's histogram column: the chart, or a text when there is nothing to chart
HistogramElement(t) ==
    IF Len(t) > 0 THEN display_histogram(t)
    ELSE [kind |-> "text", body |-> "No data to visualize."]

ShowHistogram ==
    /\ pc = "mapped"
    /\ ui' = [ui EXCEPT !.hist = Some(HistogramElement(filtered_df))]
    /\ pc' = "charted"
    /\ UNCHANGED <<cycle, response, cache, parses, loads, ran, df, rating_range,
                   selected_type, filtered_df, df2>>

\* display_average_rating(filtered_df); the run ends
ShowAverage ==
    /\ pc = "charted"
    /\ ui' = [ui EXCEPT !.avg = Some(display_average_rating(filtered_df))]
    /\ pc' = "done"
    /\ UNCHANGED <<cycle, response, cache, parses, loads, ran, df, rating_range,
                   selected_type, filtered_df, df2>>

\* a widget change or a reload re-executes the script from the top; only the
\* cache (and the call counters) outlive the run
Rerun ==
    /\ pc \in {"done", "stopped"}
    /\ cycle < MaxCycles
    /\ cycle' = cycle + 1
    /\ pc' = "start"
    /\ response' = Null
    /\ ran' = {}
    /\ df' = <<>>
    /\ rating_range' = Null
    /\ selected_type' = ""
    /\ filtered_df' = <<>>
    /\ ui' = NoUi
    /\ UNCHANGED <<cache, parses, loads, df2>>

Next ==
    \/ Fetch
    \/ Load
    \/ Halt
    \/ Clean
    \/ Widgets
    \/ Filter
    \/ ShowTable
    \/ ShowMap
    \/ ShowHistogram
    \/ ShowAverage
    \/ Rerun

Spec == Init /\ [][Next]_vars

----------------------------------------------------------------------------
(* filter_restaurants called as a function, on every table up to MaxRows rows *)

SeqsUpTo(S, n) == UNION {[1..k -> S] : k \in 0..n}

\* the CSV text with the given data lines under the header
TextOf(lines) == <<Header>> \o lines

\* data lines: rating missing, 4.0 or 4.5; type missing, mapped or unmapped
FilterLines ==
    {<<"r", rating, "7", type, "", "">> :
        rating \in {"", "4.0", "4.5"},
        type \in {"", "Sushirestaurang", "Unknown Category"}}

\* the rating ranges and selectors tried, low > high and NaN ends included
RangeInputs ==
    {<<low, high>> : low \in {Null, Some(40), Some(45)},
                     high \in {Null, Some(40), Some(45)}}
SelectorInputs == {"All", "Sushi", "Unknown Category", "Pizza"}

InitFilter ==
    /\ pc = "loaded"
    /\ cycle = 1
    /\ \E lines \in SeqsUpTo(FilterLines, MaxRows) :
          /\ response = [status_code |-> 200, text |-> TextOf(lines)]
          /\ df = ParseCsv(TextOf(lines))
    /\ cache = <<>>
    /\ parses = NoCalls
    /\ loads = NoCalls
    /\ ran = {}
    /\ rating_range = Null
    /\ selected_type = ""
    /\ filtered_df = <<>>
    /\ ui = NoUi
    /\ df2 = <<>>

\* filter_restaurants(df, rating_range, selected_type) on a normalized table
CallFilter ==
    /\ pc \in {"cleaned", "called"}
    /\ \E range \in RangeInputs : \E sel \in SelectorInputs :
          /\ rating_range' = range
          /\ selected_type' = sel
          /\ filtered_df' = filter_restaurants(df, range, sel)
    /\ ran' = ran \cup {"filter_restaurants"}
    /\ pc' = "called"
    /\ UNCHANGED <<cycle, response, cache, parses, loads, df, ui, df2>>

NextFilter ==
    \/ Clean
    \/ CallFilter

SpecFilter == InitFilter /\ [][NextFilter]_vars

----------------------------------------------------------------------------
(* clean_restaurant_types called as a function, on every type string *)

\* every key and every value of the mapping, strings near a key (accents
\* spelled properly, case or spacing off), an unknown one, and the empty field
TypeInputs ==
    DOMAIN type_mapping
    \cup {type_mapping[k] : k \in DOMAIN type_mapping}
    \cup {"Unknown Category", "Thailändsk restaurang", "sushirestaurang",
          "Sushirestaurang ", "Sushi restaurang", ""}

TypeLines == {<<"r", "4.0", "7", type, "", "">> : type \in TypeInputs}

\* two rows every table starts with: one mapped type, one unmapped
ScenarioLines ==
    << <<"Sushi Place", "4.5", "120", "Sushirestaurang", "57.7", "11.9">>,
       <<"Mystery", "3.0", "7", "Unknown Category", "", "">> >>

InitClean ==
    /\ pc = "loaded"
    /\ cycle = 1
    /\ \E lines \in SeqsUpTo(TypeLines, MaxTypeRows) :
          /\ response = [status_code |-> 200, text |-> TextOf(ScenarioLines \o lines)]
          /\ df = ParseCsv(TextOf(ScenarioLines \o lines))
    /\ cache = <<>>
    /\ parses = NoCalls
    /\ loads = NoCalls
    /\ ran = {}
    /\ rating_range = Null
    /\ selected_type = ""
    /\ filtered_df = <<>>
    /\ ui = NoUi
    /\ df2 = <<>>

\* the normalized table with cleaned_type put in the place of type
AsRaw(t) == [i \in 1..Len(t) |-> [t[i] EXCEPT !.type = t[i].cleaned_type]]

\* normalizing a second time: the mapping applied to cleaned_type as if it
\* were type
Renormalize ==
    /\ pc = "cleaned"
    /\ df2' = clean_restaurant_types(AsRaw(df))
    /\ pc' = "renormalized"
    /\ UNCHANGED <<cycle, response, cache, parses, loads, ran, df, rating_range,
                   selected_type, filtered_df, ui>>

NextClean ==
    \/ Clean
    \/ Renormalize

SpecClean == InitClean /\ [][NextClean]_vars

----------------------------------------------------------------------------
(* Properties *)

\* the routines that work on the data of a run
DataRoutines ==
    {"load_data_from_csv", "read_csv", "clean_restaurant_types", "filter_restaurants"}

\* the inclusion rule of the Filter Engine, as the specification words it
Included(row, range, sel) ==
    /\ row.rating # Null /\ range[1] # Null /\ range[2] # Null
    /\ range[1][1] <= row.rating[1]
    /\ row.rating[1] <= range[2][1]
    /\ \/ sel = "All"
       \/ row.cleaned_type # Null /\ row.cleaned_type[1] = sel

\* C1: filter_restaurants returns exactly the rows of its input with
\* low <= rating <= high (both ends inclusive) and (category = "All" or
\* cleaned_type = category): every such row, no other row, each once and in
\* the order of the input.
C1_FilterExact ==
    pc = "called" =>
        /\ \A i \in 1..Len(df) :
              Included(df[i], rating_range, selected_type)
                  <=> df[i] \in Range(filtered_df)
        /\ Range(filtered_df) \subseteq Range(df)
        /\ Len(filtered_df) = Cardinality(Range(filtered_df))
        /\ \A i, j \in 1..Len(filtered_df) :
              i < j => filtered_df[i].index < filtered_df[j].index

\* a call that keeps one of two rows: a row on the upper end of the range and
\* of the selected category is in, the other row is out
C1_Witness ==
    /\ pc = "called"
    /\ Len(df) = 2
    /\ Len(filtered_df) = 1
    /\ selected_type = "Sushi"
    /\ rating_range = <<Some(40), Some(45)>>
    /\ filtered_df[1].rating = Some(45)
    /\ df[1].rating = Some(40)
    /\ df[1].cleaned_type = Some("Unknown Category")

\* C5: with low strictly greater than high, filter_restaurants returns the
\* empty table, whatever the table and the category selector.
C5_InvertedRangeEmpty ==
    (/\ pc = "called"
     /\ rating_range[1] # Null
     /\ rating_range[2] # Null
     /\ rating_range[1][1] > rating_range[2][1]) => filtered_df = <<>>

\* a call with the range (4.5, 4.0) on a table whose rows are rated 4.0 and 4.5
C5_Witness ==
    /\ pc = "called"
    /\ rating_range = <<Some(45), Some(40)>>
    /\ selected_type = "All"
    /\ Len(df) = 2
    /\ df[1].rating = Some(40)
    /\ df[2].rating = Some(45)
    /\ filtered_df = <<>>

\* C6: no row of a result of filter_restaurants lacks a rating, whatever the
\* range and the selector.
C6_NoMissingRating ==
    pc = "called" => \A i \in 1..Len(filtered_df) : filtered_df[i].rating # Null

\* a call with selector "All" on a table with an unrated and a rated row,
\* which returns the rated row alone
C6_Witness ==
    /\ pc = "called"
    /\ selected_type = "All"
    /\ Len(df) = 2
    /\ df[1].rating = Null
    /\ df[2].rating # Null
    /\ Len(filtered_df) = 1
    /\ filtered_df[1].index = 1

\* C4: after clean_restaurant_types every row's cleaned_type is
\* type_mapping[type] when type is, exactly, a key of the table, and type
\* itself otherwise (a missing type stays missing); "Sushirestaurang" gives
\* "Sushi" and "Unknown Category" gives "Unknown Category".
C4_CleanedType ==
    pc \in {"cleaned", "renormalized"} =>
        \A i \in 1..Len(df) :
            /\ "cleaned_type" \in DOMAIN df[i]
            /\ (df[i].type # Null /\ df[i].type[1] \in DOMAIN type_mapping)
                  => df[i].cleaned_type = Some(type_mapping[df[i].type[1]])
            /\ ~(df[i].type # Null /\ df[i].type[1] \in DOMAIN type_mapping)
                  => df[i].cleaned_type = df[i].type
            /\ df[i].type = Some("Sushirestaurang") => df[i].cleaned_type = Some("Sushi")
            /\ df[i].type = Some("Unknown Category")
                  => df[i].cleaned_type = Some("Unknown Category")

\* a normalized table with a mapped row, an unmapped row, and a row whose type
\* differs from a key only in how the accent is spelled
C4_Witness ==
    /\ pc = "cleaned"
    /\ Len(df) = 3
    /\ df[1].type = Some("Sushirestaurang") /\ df[1].cleaned_type = Some("Sushi")
    /\ df[2].type = Some("Unknown Category")
    /\ df[2].cleaned_type = Some("Unknown Category")
    /\ df[3].type = Some("Thailändsk restaurang")
    /\ df[3].cleaned_type = Some("Thailändsk restaurang")

\* C9: normalizing a normalized table again (cleaned_type taken as type)
\* leaves cleaned_type as it is in every row whose cleaned_type is not a key
\* of the mapping table.
C9_IdempotentOffKeys ==
    pc = "renormalized" =>
        /\ Len(df2) = Len(df)
        /\ \A i \in 1..Len(df) :
              ~(df[i].cleaned_type # Null
                  /\ df[i].cleaned_type[1] \in DOMAIN type_mapping)
                  => df2[i].cleaned_type = df[i].cleaned_type

\* a table normalized twice whose third row was mapped the first time to a
\* value, "Tapas", that is no key
C9_Witness ==
    /\ pc = "renormalized"
    /\ Len(df) = 3
    /\ df[3].type = Some("Tapasbar")
    /\ df[3].cleaned_type = Some("Tapas")
    /\ df2[3].cleaned_type = Some("Tapas")
    /\ df2[1].cleaned_type = Some("Sushi")

\* C10: for the table as it is, normalizing twice gives what normalizing once
\* gives in every row, also where cleaned_type is a key: every value of the
\* table that is a key maps to itself.
C10_IdempotentEverywhere ==
    /\ \A k \in DOMAIN type_mapping :
          type_mapping[k] \in DOMAIN type_mapping
              => type_mapping[type_mapping[k]] = type_mapping[k]
    /\ pc = "renormalized" =>
          \A i \in 1..Len(df) : df2[i].cleaned_type = df[i].cleaned_type

\* a table normalized twice whose third row has a cleaned_type, "Bistro",
\* that is a key of the table
C10_Witness ==
    /\ pc = "renormalized"
    /\ Len(df) = 3
    /\ df[3].cleaned_type = Some("Bistro")
    /\ "Bistro" \in DOMAIN type_mapping
    /\ df2[3].cleaned_type = Some("Bistro")

\* C2: in a run whose GET returned a status other than 200, the error with
\* that status is shown and the run stops: nothing is loaded, parsed,
\* normalized or filtered and no table, map, histogram or average is
\* rendered; load_data_from_csv is called only after status 200.
C2_HaltOnBadStatus ==
    /\ (response # Null /\ response.status_code # 200) =>
          /\ pc \in {"fetched", "stopped"}
          /\ ran \cap DataRoutines = {}
          /\ ui.table = Null /\ ui.map = Null /\ ui.hist = Null /\ ui.avg = Null
          /\ pc = "stopped" => ui.error = Some(response.status_code)
    /\ "load_data_from_csv" \in ran => response.status_code = 200
    /\ ui.error # Null => pc = "stopped"
    /\ pc \in {"loaded", "cleaned", "widgets", "filtered", "tabled", "mapped",
               "charted", "done"} => response.status_code = 200

\* a run stopped on a 404, after an earlier run of the session loaded a file
C2_Witness ==
    /\ pc = "stopped"
    /\ response.status_code = 404
    /\ ui = [NoUi EXCEPT !.error = Some(404)]
    /\ cycle > 1
    /\ DOMAIN cache # {}
    /\ ran = {}

\* C3: over the runs of a session pd.read_csv is executed at most once per
\* text: the first load of a text parses it, a load of a text loaded before
\* is answered from the cache without parsing.
C3_ParseOncePerText ==
    /\ \A text \in Datasets :
          /\ parses[text] <= 1
          /\ loads[text] > 0 => parses[text] = 1
          /\ loads[text] = 0 => parses[text] = 0
    /\ "load_data_from_csv" \in ran =>
          ("read_csv" \in ran <=> loads[response.text] = 1)

\* the third run loads the text the first run loaded, after the second run
\* loaded another, and does not parse
C3_Witness ==
    /\ cycle = 3
    /\ pc = "loaded"
    /\ response.text = DataA
    /\ loads[DataA] = 2
    /\ loads[DataB] = 1
    /\ parses[DataA] = 1
    /\ parses[DataB] = 1
    /\ "read_csv" \notin ran

\* C7: every load of a text returns the table its first parse produced (rows
\* in the order of the text, labels 0, 1, 2, ..., no cleaned_type column),
\* also after clean_restaurant_types changed the table an earlier load
\* returned; no cache entry ever differs from the parse of its text.
C7_LoadRoundTrip ==
    /\ pc = "loaded" =>
          /\ df = ParseCsv(response.text)
          /\ Len(df) = Len(response.text) - 1
          /\ \A i \in 1..Len(df) :
                /\ df[i].index = i - 1
                /\ "cleaned_type" \notin DOMAIN df[i]
                /\ df[i].title = Some(response.text[i + 1][1])
    /\ \A text \in DOMAIN cache : cache[text] = ParseCsv(text)

\* a second load of a text, answered from the cache, in a run after the one
\* that loaded and normalized it
C7_Witness ==
    /\ pc = "loaded"
    /\ cycle > 1
    /\ loads[response.text] = 2
    /\ "read_csv" \notin ran
    /\ Len(df) = 3

\* the element shown in place of the average / the histogram for no rows
AveragePlaceholder == [kind |-> "text", body |-> "No restaurants found."]
HistogramPlaceholder == [kind |-> "text", body |-> "No data to visualize."]

\* C8: when filter_restaurants returned no row, the run goes on to its end
\* without an error; the average shows the placeholder text, never a number,
\* and no histogram is drawn.
C8_EmptyViewPlaceholder ==
    (pc \in {"filtered", "tabled", "mapped", "charted", "done"}
        /\ filtered_df = <<>>) =>
        /\ ui.error = Null
        /\ ui.avg \in {Null, Some(AveragePlaceholder)}
        /\ ui.hist \in {Null, Some(HistogramPlaceholder)}
        /\ pc = "filtered" => ENABLED ShowTable
        /\ pc = "tabled" => ENABLED ShowMap
        /\ pc = "mapped" => ENABLED ShowHistogram
        /\ pc = "charted" => ENABLED ShowAverage
        /\ pc = "done" =>
              /\ ui.table = Some(<<>>)
              /\ ui.avg = Some(AveragePlaceholder)
              /\ ui.hist = Some(HistogramPlaceholder)

\* a finished run over a table with rated rows of which none is in the
\* selected range and category
C8_Witness ==
    /\ pc = "done"
    /\ Len(df) = 3
    /\ selected_type = "Unknown Category"
    /\ rating_range = <<Some(41), Some(42)>>
    /\ filtered_df = <<>>
    /\ ui.avg = Some(AveragePlaceholder)
    /\ ui.hist = Some(HistogramPlaceholder)

====
